---- MODULE Spec2Model ----
(***************************************************************************)
(* A model of the resume / GitHub job-match analyzer (src/app.py) and of    *)
(* its desktop launcher (src/main.py).                                     *)
(*                                                                         *)
(*   SpecFetch  - fetch_github_repos: credential resolution, the GitHub    *)
(*                account as the API presents it, the filtering loop and   *)
(*                the exception handlers.                                  *)
(*   SpecParse  - display_results and its inner extract_section: the       *)
(*                regular expression, evaluated on tokenised text.         *)
(*   SpecGemini - analyze_with_gemini and answer_with_gemini: the key      *)
(*                test, the request and the classification of failures.    *)
(*   SpecUpload, SpecSubmit, SpecCache - the script of app.py, run once    *)
(*                for each interaction of the user: the sidebar with the   *)
(*                preview, the upload of the resume, and the two submit    *)
(*                flows with their cached repository fetch.                *)
(*   SpecLauncher - main of main.py: the server process, the wait for its  *)
(*                port, the window and the cleanup.                        *)
(***************************************************************************)
EXTENDS Integers, Sequences, FiniteSets, TLC

VARIABLES
    \* ---- the environment of fetch_github_repos
    token_input,      \* the github_token_from_input argument
    secret_token,     \* st.secrets: SecretsUnavailable, NoValue (no key), or the value
    env_token,        \* os.environ.get("GITHUB_TOKEN"): NoValue or the value
    user_exists,      \* whether the username names a GitHub account
    listing,          \* the account's repositories, most recently updated first
    \* ---- what one call of fetch_github_repos leaves behind
    fetch_pc,         \* "idle" | "fetched"
    api_fault,        \* the failure the API produced during the call
    github_token,     \* the credential the call resolved
    fetch_status,     \* the handler that ended the call
    fetch_result,     \* the returned list
    fetch_msgs,       \* the messages the call showed
    \* ---- display_results
    analysis_text,    \* the response text, a sequence of tokens
    display_pc,       \* "idle" | "displayed"
    sections,         \* title -> extracted body, or NotFound
    sections_found_count,
    shown,            \* the panels display_results rendered
    \* ---- analyze_with_gemini / answer_with_gemini
    gemini_api_key,   \* st.session_state.gemini_api_key
    service,          \* what the generative client does with the next call
    gemini_pc,        \* "idle" | "returned"
    gemini_fn,        \* the function that was called
    client_configured,\* genai.configure(api_key=...) has completed
    requests_sent,    \* the prompts handed to model.generate_content
    gemini_status,    \* the branch that ended the call
    gemini_text,      \* the returned text
    gemini_msgs,      \* the messages the call showed
    \* ---- st.session_state
    github_pat,
    github_username,
    uploaded_resume_content,
    uploaded_resume_filename,
    session_form,     \* question, job_role, company_name, job_description
    \* ---- st.cache_data and the clock
    fetch_cache,      \* (username, token) -> the stored result and its time
    now,              \* seconds
    \* ---- one run of the script
    run_pc,           \* "sidebar" | "upload" | "form" | "done"
    show_github_sidebar, \* the preview checkbox
    uploaded_file,    \* what st.file_uploader returned
    file_read,        \* uploaded_file.getvalue() was called
    button,           \* the form button that started the run
    valid_inputs,
    page_msgs,        \* the messages of the upload handling and of the flows
    api_calls,        \* the calls of fetch_github_repos, in order
    github_data_main, \* the repository list handed to the generative call
    \* ---- the desktop launcher (main.py)
    main_pc,          \* "start" | "wait" | "timeout" | "window" | "gui" | "returned" | "exited"
    streamlit_process,\* main's local: NoValue (None) or the process object
    server,           \* the form server: "none" | "starting" | "listening" | "terminated"
    elapsed,          \* time.time() - start_time, in half seconds
    connected,        \* a connect_ex to the port returned 0
    window,           \* "none" | "created" | "closed"
    cleanup_log,      \* what the calls of cleanup asked of the process
    ending            \* how main ended

fetch_env  == <<token_input, secret_token, env_token, user_exists, listing>>
fetch_out  == <<fetch_pc, api_fault, github_token, fetch_status, fetch_result, fetch_msgs>>
parse_vars == <<analysis_text, display_pc, sections, sections_found_count, shown>>
gemini_env == <<gemini_api_key, service>>
gemini_out == <<gemini_pc, gemini_fn, client_configured, requests_sent, gemini_status,
                gemini_text, gemini_msgs>>
session    == <<github_pat, github_username, uploaded_resume_content,
                uploaded_resume_filename, session_form>>
cache_vars == <<fetch_cache, now>>
run_vars   == <<run_pc, show_github_sidebar, uploaded_file, file_read, button, valid_inputs, page_msgs,
                api_calls, github_data_main>>
launcher   == <<main_pc, streamlit_process, server, elapsed, connected, window, cleanup_log,
                ending>>
app_vars   == <<gemini_env, gemini_out, session, cache_vars, run_vars, launcher>>
vars       == <<fetch_env, fetch_out, parse_vars, app_vars>>

(***************************************************************************)
(* Values                                                                  *)
(***************************************************************************)
\* Python's None, among string values.
NoValue == "<None>"
\* st.secrets raising on access (no secrets file).
SecretsUnavailable == "<secrets unavailable>"

\* Python truthiness of an optional string.
Truthy(v) == v \notin {NoValue, ""}

Min(a, b) == IF a <= b THEN a ELSE b

\* A text is known by the document it is a prefix of and by its length: the
\* first len characters of README document `of`.  The empty string is one value.
EmptyText == [of |-> 0, len |-> 0]
Text(doc, n) == IF n = 0 THEN EmptyText ELSE [of |-> doc, len |-> n]
\* s[:n]
Prefix(s, n) == Text(s.of, Min(s.len, n))

(***************************************************************************)
(* Program constants                                                       *)
(***************************************************************************)
max_repos_to_process == 50
readme_limit == 8000

(***************************************************************************)
(* Bounds of the explored inputs                                           *)
(***************************************************************************)
\* Repositories added one at a time, of any kind.
MaxSingles == 2
\* Runs of ordinary repositories added at once, and the length of a run.
MaxBulks == 1
BulkLen == 50
\* The listing is delivered in pages: iterating it can fail at a page boundary.
PageSize == 30

(***************************************************************************)
(* The GitHub account                                                      *)
(***************************************************************************)
\* What repo.get_readme() and the decoding do for a repository.
ReadmeText(n) == [kind |-> "text", len |-> n]
ReadmeMissing == [kind |-> "UnknownObjectException", len |-> 0]
ReadmeRateLimited == [kind |-> "RateLimitExceededException", len |-> 0]
ReadmeUndecodable == [kind |-> "DecodeError", len |-> 0]

RepoKinds ==
    { [fork |-> FALSE, description |-> "desc",  readme |-> ReadmeText(5)],
      [fork |-> TRUE,  description |-> "desc",  readme |-> ReadmeText(readme_limit + 1)],
      [fork |-> FALSE, description |-> NoValue, readme |-> ReadmeMissing],
      [fork |-> FALSE, description |-> "",      readme |-> ReadmeRateLimited],
      [fork |-> FALSE, description |-> "desc",  readme |-> ReadmeUndecodable],
      [fork |-> FALSE, description |-> "desc",  readme |-> ReadmeText(readme_limit + 1)],
      [fork |-> FALSE, description |-> "desc",  readme |-> ReadmeText(readme_limit)],
      [fork |-> FALSE, description |-> "desc",  readme |-> ReadmeText(0)] }

OrdinaryRepo == [fork |-> FALSE, description |-> "desc", readme |-> ReadmeText(5)]

Repo(n, k) == [name |-> n, fork |-> k.fork, description |-> k.description, readme |-> k.readme]

\* Single repositories are named 1, 2, ...; the i-th repository of run j is
\* named 1000 * j + i.  The name tells the repositories of a listing apart.
IsBulk(r) == r.name > 1000
Singles(l) == Cardinality({i \in 1..Len(l) : ~IsBulk(l[i])})
Bulks(l) == Cardinality({l[i].name \div 1000 : i \in {j \in 1..Len(l) : IsBulk(l[j])}})
BulkRun(j) == [i \in 1..BulkLen |-> Repo(1000 * j + (BulkLen + 1 - i), OrdinaryRepo)]

(***************************************************************************)
(* The failures of the API calls outside the README retrieval              *)
(***************************************************************************)
NoFault == [at |-> "none", kind |-> "none", pos |-> 0]
FaultKinds == {"RateLimitExceededException", "Exception"}
\* get_repos: the iteration yields pos repositories, then raises.
Faults(l) ==
    {NoFault}
    \cup {[at |-> a, kind |-> k, pos |-> 0] : a \in {"get_rate_limit", "get_user"}, k \in FaultKinds}
    \cup {[at |-> "get_repos", kind |-> k, pos |-> p] :
            k \in FaultKinds, p \in {q \in {0, PageSize} : q = 0 \/ q < Len(l)}}

(***************************************************************************)
(* fetch_github_repos                                                      *)
(***************************************************************************)
\* ResolveToken with the environment variable consulted before st.secrets.
ResolveToken_EnvFirst(from_input, secret, env) ==
    LET t1 == from_input
        t2 == IF ~Truthy(t1) THEN env ELSE t1
    IN  IF ~Truthy(t2)
        THEN IF secret \notin {SecretsUnavailable, NoValue} THEN secret ELSE t2
        ELSE t2

\* Lines 39-49: input field, then st.secrets, then the environment variable.
ResolveToken(from_input, secret, env) ==
    LET t1 == from_input
        t2 == IF ~Truthy(t1)
              THEN IF secret \notin {SecretsUnavailable, NoValue} THEN secret ELSE t1
              ELSE t1
    IN  IF ~Truthy(t2) THEN env ELSE t2

\* ReadmeTry without the `except Exception` clause: only a missing README passes.
ReadmeTry_OnlyUnknownObject(repo) ==
    IF repo.readme.kind = "text"
    THEN [raised |-> "none", readme_content |-> Text(repo.name, repo.readme.len)]
    ELSE IF repo.readme.kind = "UnknownObjectException"
    THEN [raised |-> "none", readme_content |-> EmptyText]
    ELSE [raised |-> IF repo.readme.kind = "RateLimitExceededException"
                     THEN "RateLimitExceededException" ELSE "Exception",
          readme_content |-> EmptyText]

\* Lines 77-85: the README of one repository.  readme_content is assigned only
\* when get_readme and both decodings succeed; `except UnknownObjectException`
\* and `except Exception` pass, so nothing is raised to the loop.
ReadmeTry(repo) ==
    IF repo.readme.kind = "text"
    THEN [raised |-> "none", readme_content |-> Text(repo.name, repo.readme.len)]
    ELSE [raised |-> "none", readme_content |-> EmptyText]

\* RepoInfo without the [:8000].
RepoInfo_NoLimit(repo, readme_content) ==
    [name |-> repo.name,
     description |-> IF Truthy(repo.description) THEN repo.description
                     ELSE "No description provided.",
     readme |-> readme_content]

\* Lines 87-91.
RepoInfo(repo, readme_content) ==
    [name |-> repo.name,
     description |-> IF Truthy(repo.description) THEN repo.description
                     ELSE "No description provided.",
     readme |-> IF readme_content # EmptyText THEN Prefix(readme_content, readme_limit)
                ELSE EmptyText]

\* LoopTurn with the cap tested by > where the code has >=.
LoopTurn_OffByOne(st, repos, fault, i) ==
    IF st.raised # "none" \/ st.stopped THEN st
    ELSE IF fault.at = "get_repos" /\ fault.pos = i - 1
    THEN [st EXCEPT !.raised = fault.kind]
    ELSE IF i > Len(repos) THEN st
    ELSE IF ~repos[i].fork
    THEN IF st.processed_count > max_repos_to_process
         THEN [st EXCEPT !.stopped = TRUE]
         ELSE LET try == ReadmeTry(repos[i])
              IN  IF try.raised # "none"
                  THEN [st EXCEPT !.raised = try.raised]
                  ELSE [st EXCEPT !.repo_data = Append(@, RepoInfo(repos[i], try.readme_content)),
                                  !.processed_count = @ + 1]
    ELSE st

\* Lines 71-93: one turn of the loop, the i-th request to the listing's iterator.
\* A loop that has raised or has left by `break` takes no further turn.
LoopTurn(st, repos, fault, i) ==
    IF st.raised # "none" \/ st.stopped THEN st
    ELSE IF fault.at = "get_repos" /\ fault.pos = i - 1
    THEN [st EXCEPT !.raised = fault.kind]
    ELSE IF i > Len(repos) THEN st
    ELSE IF ~repos[i].fork
    THEN IF st.processed_count >= max_repos_to_process
         THEN [st EXCEPT !.stopped = TRUE]
         ELSE LET try == ReadmeTry(repos[i])
              IN  IF try.raised # "none"
                  THEN [st EXCEPT !.raised = try.raised]
                  ELSE [st EXCEPT !.repo_data = Append(@, RepoInfo(repos[i], try.readme_content)),
                                  !.processed_count = @ + 1]
    ELSE st

\* The turns lo..hi in order, from state st.
RECURSIVE LoopTurns(_, _, _, _, _)
LoopTurns(st, repos, fault, lo, hi) ==
    IF lo = hi THEN LoopTurn(st, repos, fault, lo)
    ELSE LET mid == (lo + hi) \div 2
             half == LoopTurns(st, repos, fault, lo, mid)
         IN  IF half.raised # "none" \/ half.stopped THEN half
             ELSE LoopTurns(half, repos, fault, mid + 1, hi)

\* Lines 67-93: the whole loop; the last turn is the one that finds the listing exhausted.
FetchLoop(repos, fault) ==
    LoopTurns([raised |-> "none", repo_data |-> <<>>, processed_count |-> 0, stopped |-> FALSE],
              repos, fault, 1, Len(repos) + 1)

\* Handler without the `except UnknownObjectException` clause.
Handler_NoUserNotFound(kind, token) ==
    CASE kind = "RateLimitExceededException" ->
            [status |-> "AuthRateLimited", result |-> <<>>,
             msgs |-> {"error: rate limit exceeded"}
                      \cup (IF ~Truthy(token) THEN {"error: consider adding a token"} ELSE {})]
      [] OTHER ->
            [status |-> "TransientError", result |-> <<>>, msgs |-> {"error: unexpected"}]

\* Handler without the `except RateLimitExceededException` clause.
Handler_NoRateLimit(kind, token) ==
    CASE kind = "UnknownObjectException" ->
            [status |-> "UserNotFound", result |-> <<>>, msgs |-> {"error: user not found"}]
      [] OTHER ->
            [status |-> "TransientError", result |-> <<>>, msgs |-> {"error: unexpected"}]

\* Lines 99-109: the handlers.
Handler(kind, token) ==
    CASE kind = "RateLimitExceededException" ->
            [status |-> "AuthRateLimited", result |-> <<>>,
             msgs |-> {"error: rate limit exceeded"}
                      \cup (IF ~Truthy(token) THEN {"error: consider adding a token"} ELSE {})]
      [] kind = "UnknownObjectException" ->
            [status |-> "UserNotFound", result |-> <<>>, msgs |-> {"error: user not found"}]
      [] OTHER ->
            [status |-> "TransientError", result |-> <<>>, msgs |-> {"error: unexpected"}]

\* The call with a handler that returns what the loop had collected.
fetch_github_repos_KeepsCollected(from_input, secret, env, exists, repos, fault) ==
    LET token == ResolveToken(from_input, secret, env)
        unauth == IF Truthy(token) THEN {}
                  ELSE {"sidebar warning: unauthenticated access"}
        quota == IF ~Truthy(token) /\ fault.at # "get_rate_limit"
                 THEN {"sidebar caption: requests remaining"} ELSE {}
        loop == FetchLoop(repos, fault)
        fail(kind) == LET h == Handler(kind, token)
                      IN  [token |-> token, status |-> h.status, result |-> h.result,
                           msgs |-> unauth \cup quota \cup h.msgs]
    IN  IF ~Truthy(token) /\ fault.at = "get_rate_limit" THEN fail(fault.kind)
        ELSE IF fault.at = "get_user" THEN fail(fault.kind)
        ELSE IF ~exists THEN fail("UnknownObjectException")
        ELSE IF loop.raised # "none"
        THEN [fail(loop.raised) EXCEPT !.result = loop.repo_data]
        ELSE [token |-> token, status |-> "ok", result |-> loop.repo_data,
              msgs |-> unauth \cup quota
                       \cup (IF loop.stopped THEN {"sidebar info: stopped at the cap"} ELSE {})
                       \cup (IF loop.repo_data = <<>> /\ loop.processed_count = 0
                             THEN {"sidebar warning: no non-forked repositories"} ELSE {})]

\* Lines 51-97, then the handlers: the whole call, as [token, status, result, msgs].
fetch_github_repos(from_input, secret, env, exists, repos, fault) ==
    LET token == ResolveToken(from_input, secret, env)
        unauth == IF Truthy(token) THEN {}
                  ELSE {"sidebar warning: unauthenticated access"}
        quota == IF ~Truthy(token) /\ fault.at # "get_rate_limit"
                 THEN {"sidebar caption: requests remaining"} ELSE {}
        loop == FetchLoop(repos, fault)
        fail(kind) == LET h == Handler(kind, token)
                      IN  [token |-> token, status |-> h.status, result |-> h.result,
                           msgs |-> unauth \cup quota \cup h.msgs]
    IN  IF ~Truthy(token) /\ fault.at = "get_rate_limit" THEN fail(fault.kind)
        ELSE IF fault.at = "get_user" THEN fail(fault.kind)
        ELSE IF ~exists THEN fail("UnknownObjectException")
        ELSE IF loop.raised # "none" THEN fail(loop.raised)
        ELSE [token |-> token, status |-> "ok", result |-> loop.repo_data,
              msgs |-> unauth \cup quota
                       \cup (IF loop.stopped THEN {"sidebar info: stopped at the cap"} ELSE {})
                       \cup (IF loop.repo_data = <<>> /\ loop.processed_count = 0
                             THEN {"sidebar warning: no non-forked repositories"} ELSE {})]

(***************************************************************************)
(* Response texts                                                          *)
(*                                                                         *)
(* A text is a sequence of tokens: the characters "*", "\n", " ", "1", "." *)
(* and "a" (any other character), and one token for each run of characters *)
(* the code looks for as a whole: a section title, in the prompt's case or *)
(* in upper case, and the two error prefixes.                              *)
(***************************************************************************)
\* Lines 210-215: sections_to_display, in its order.
sections_to_display ==
    <<"Skills to Highlight", "Projects to Showcase", "Resume Objective",
      "Interview Preparation Tips">>
Titles == {sections_to_display[i] : i \in 1..Len(sections_to_display)}

UpperCase(t) ==
    CASE t = "Skills to Highlight" -> "SKILLS TO HIGHLIGHT"
      [] t = "Projects to Showcase" -> "PROJECTS TO SHOWCASE"
      [] t = "Resume Objective" -> "RESUME OBJECTIVE"
      [] t = "Interview Preparation Tips" -> "INTERVIEW PREPARATION TIPS"
      [] OTHER -> t

\* re.IGNORECASE: two tokens match when they are equal after case folding.
CaseFold(c) == IF \E t \in Titles : c = UpperCase(t)
               THEN CHOOSE t \in Titles : c = UpperCase(t)
               ELSE c

\* \s and str.strip(): white space.  \d: a digit.
Spaces == {" ", "\n"}
Digits == {"1"}
IsSpace(c) == c \in Spaces

EndOfText == "<end>"
At(text, p) == IF p \in 1..Len(text) THEN text[p] ELSE EndOfText
\* \*\* at p.
BoldAt(text, p) == At(text, p) = "*" /\ At(text, p + 1) = "*"

\* The position after the longest run of tokens of class that starts at p.
RunEnd(text, p, class) ==
    CHOOSE q \in p..(Len(text) + 1) :
        /\ \A k \in p..(q - 1) : text[k] \in class
        /\ At(text, q) \notin class

\* str.strip()
Strip(text) ==
    LET keep == {k \in 1..Len(text) : ~IsSpace(text[k])}
    IN  IF keep = {} THEN <<>>
        ELSE SubSeq(text, CHOOSE k \in keep : \A j \in keep : k <= j,
                          CHOOSE k \in keep : \A j \in keep : k >= j)

(***************************************************************************)
(* extract_section                                                         *)
(*                                                                         *)
(* The pattern of line 198, piece by piece: each operator takes the        *)
(* position that the pieces before it have reached.                        *)
(***************************************************************************)
\* \.\s+ after the digits that end at d; p when (\d+\.\s+)? matches nothing.
NumberEnd(text, p, d) ==
    IF d > p /\ At(text, d) = "." /\ RunEnd(text, d + 1, Spaces) > d + 1
    THEN RunEnd(text, d + 1, Spaces)
    ELSE p

\* (\d+\.\s+)? at p: the position after the group.
AfterNumber(text, p) == NumberEnd(text, p, RunEnd(text, p, Digits))

\* TITLE\*\* at n, under re.IGNORECASE: the position after it, 0 without a match.
TitleEnd(text, n, section_name) ==
    IF CaseFold(At(text, n)) = CaseFold(section_name) /\ BoldAt(text, n + 1)
    THEN n + 3 ELSE 0

\* \*\*(\d+\.\s+)?TITLE\*\* at q.
BoldHeadingEnd(text, q, section_name) ==
    IF BoldAt(text, q) THEN TitleEnd(text, AfterNumber(text, q + 2), section_name) ELSE 0

\* (?:^|\n)\s*\*\*(\d+\.\s+)?TITLE\*\* tried at s: the position after the match, 0
\* when there is none.  Without re.MULTILINE ^ is the start of the text, and the
\* line break of the second alternative is white space that \s* would take too.
HeadingEnd(text, s, section_name) ==
    IF s = 1 \/ At(text, s) = "\n"
    THEN BoldHeadingEnd(text, RunEnd(text, s, Spaces), section_name)
    ELSE 0

\* \*\*(\d+\.\s+)?.*?\*\* at q.  Under re.DOTALL the .*? runs over line breaks, so
\* the closing \*\* may stand anywhere in the rest of the text.
BoldRunAt(text, q) ==
    BoldAt(text, q) /\ \E r \in (q + 2)..Len(text) : BoldAt(text, r)

\* (?=\n\s*\*\*(\d+\.\s+)?.*?\*\*|\Z) at e.
Lookahead(text, e) ==
    \/ e = Len(text) + 1
    \/ At(text, e) = "\n" /\ BoldRunAt(text, RunEnd(text, e + 1, Spaces))

\* (.*?) from h: it ends at the first position where the lookahead holds.
GroupEnd(text, h) ==
    CHOOSE x \in h..(Len(text) + 1) :
        Lookahead(text, x) /\ \A y \in h..(x - 1) : ~Lookahead(text, y)

\* The match whose heading ends before h: [found, group2], group2 being match.group(2).
MatchFrom(text, h) == [found |-> TRUE, group2 |-> SubSeq(text, h, GroupEnd(text, h) - 1)]

\* The leftmost of the positions where the pattern matches.
Leftmost(starts) == CHOOSE x \in starts : \A y \in starts : x <= y
LeftmostMatch(text, section_name, starts) ==
    IF starts = {} THEN [found |-> FALSE, group2 |-> <<>>]
    ELSE MatchFrom(text, HeadingEnd(text, Leftmost(starts), section_name))

\* Line 199: re.search(pattern, text, re.DOTALL | re.IGNORECASE).
Search(text, section_name) ==
    LeftmostMatch(text, section_name,
                  {s \in 1..Len(text) : HeadingEnd(text, s, section_name) # 0})

\* The value None of extract_section, and a returned body.
NotFound == [found |-> FALSE, content |-> <<>>]
Body(content) == [found |-> TRUE, content |-> content]
StartsWithBold(content) == BoldAt(content, 1)

\* CheckContent without the test content.startswith("**").
CheckContent_NoBoldTest(content) ==
    IF content = <<>> THEN NotFound ELSE Body(content)

\* Lines 202-204.
CheckContent(content) ==
    IF content = <<>> \/ StartsWithBold(content) THEN NotFound ELSE Body(content)

\* Lines 200-205.
FromMatch(match) ==
    IF match.found THEN CheckContent(Strip(match.group2)) ELSE NotFound

\* Lines 197-205.
extract_section(text, section_name) == FromMatch(Search(text, section_name))

(***************************************************************************)
(* display_results                                                         *)
(***************************************************************************)
\* Line 217.
IsErrorText(text) ==
    \/ At(text, 1) = "Error:"
    \/ \E p \in 1..Len(text) : text[p] = "An error occurred during Gemini analysis:"

Panel(kind, title, body) == [panel |-> kind, title |-> title, body |-> body]

\* Lines 221-230: what the loop leaves for one title.
SectionPanels(section_title, section_content) ==
    IF section_content.found
    THEN {Panel("markdown", section_title, section_content.content)}
         \cup (IF section_title = "Resume Objective"
               THEN {Panel("copy-paste text area", section_title, section_content.content)}
               ELSE {})
    ELSE {Panel("warning: could not extract", section_title, <<>>)}

\* RawPanels with the fallback shown whenever some section is missing.
RawPanels_AnyMissing(text, found_count) ==
    IF found_count < Len(sections_to_display) /\ text # <<>> /\ At(text, 1) # "Error:"
    THEN {Panel("raw response (parsing failed)", "", text)}
    ELSE IF text # <<>>
    THEN {Panel("raw response", "", text)}
    ELSE {}

\* Lines 232-238: the raw response panels.
RawPanels(text, found_count) ==
    IF found_count = 0 /\ text # <<>> /\ At(text, 1) # "Error:"
    THEN {Panel("raw response (parsing failed)", "", text)}
    ELSE IF text # <<>>
    THEN {Panel("raw response", "", text)}
    ELSE {}

\* Lines 221-238, given what extract_section returned for each title.
ShowSections(text, found, count) ==
    [sections |-> found, sections_found_count |-> count,
     shown |-> UNION {SectionPanels(t, found[t]) : t \in Titles} \cup RawPanels(text, count)]
CountAndShow(text, found) ==
    ShowSections(text, found, Cardinality({t \in Titles : found[t].found}))

\* Lines 207-238: the whole function, as [sections, sections_found_count, shown].
NoSections == [t \in Titles |-> NotFound]
display_results_NoEarlyReturn(text) ==
    CountAndShow(text, [t \in Titles |-> extract_section(text, t)])
display_results(text) ==
    IF IsErrorText(text)
    THEN [sections |-> NoSections, sections_found_count |-> 0,
          shown |-> {Panel("error: analysis failed", "", text)}]
    ELSE CountAndShow(text, [t \in Titles |-> extract_section(text, t)])

(***************************************************************************)
(* The parts of the program a specification leaves at rest                 *)
(***************************************************************************)
GeminiOutIdle ==
    /\ gemini_pc = "idle"
    /\ gemini_fn = "none"
    /\ client_configured = FALSE
    /\ requests_sent = <<>>
    /\ gemini_status = "none"
    /\ gemini_text = <<>>
    /\ gemini_msgs = {}

GeminiIdle ==
    /\ gemini_api_key = ""
    /\ service = [raises |-> "none", error |-> <<>>, text |-> <<>>]
    /\ GeminiOutIdle

\* Lines 27-30, 245-246 and 255-256: the session state of a new session.
NoForm == [question |-> NoValue, job_role |-> NoValue, company_name |-> NoValue,
           job_description |-> NoValue]
SessionNew ==
    /\ github_pat = ""
    /\ github_username = NoValue
    /\ uploaded_resume_content = NoValue
    /\ uploaded_resume_filename = NoValue
    /\ session_form = NoForm

\* No file in the uploader.
NoFile == [name |-> NoValue, bytes |-> NoValue]

\* A run of the script that has not started.
RunNew ==
    /\ run_pc = "sidebar"
    /\ show_github_sidebar = FALSE
    /\ uploaded_file = NoFile
    /\ file_read = FALSE
    /\ button = "none"
    /\ valid_inputs = FALSE
    /\ page_msgs = {}
    /\ api_calls = <<>>
    /\ github_data_main = <<>>

\* An entry of the cache that holds nothing.
NoEntry == [present |-> FALSE, stored |-> 0, value |-> <<>>]
CacheKeys == {"alice"} \X {"", "token-input"}
CacheNew ==
    /\ fetch_cache = [k \in CacheKeys |-> NoEntry]
    /\ now = 0

LauncherNew ==
    /\ main_pc = "start"
    /\ streamlit_process = NoValue
    /\ server = "none"
    /\ elapsed = 0
    /\ connected = FALSE
    /\ window = "none"
    /\ cleanup_log = <<>>
    /\ ending = "running"
ScriptIdle == SessionNew /\ CacheNew /\ RunNew /\ LauncherNew

AppIdle == GeminiIdle /\ ScriptIdle

(***************************************************************************)
(* Actions of SpecFetch                                                    *)
(***************************************************************************)
ParseIdle ==
    /\ analysis_text = <<>>
    /\ display_pc = "idle"
    /\ sections = NoSections
    /\ sections_found_count = 0
    /\ shown = {}

FetchIdle ==
    /\ fetch_pc = "idle"
    /\ api_fault = NoFault
    /\ github_token = NoValue
    /\ fetch_status = "none"
    /\ fetch_result = <<>>
    /\ fetch_msgs = {}

InitFetch ==
    /\ token_input \in {NoValue, "", "token-input"}
    /\ secret_token \in {SecretsUnavailable, NoValue, "", "token-secret"}
    /\ env_token \in {NoValue, "", "token-env"}
    /\ user_exists \in BOOLEAN
    /\ listing = <<>>
    /\ FetchIdle
    /\ ParseIdle
    /\ AppIdle

\* The user creates or updates a repository: it becomes the first of the listing.
PushRepo(k) ==
    /\ fetch_pc = "idle"
    /\ user_exists
    /\ Singles(listing) < MaxSingles
    /\ listing' = <<Repo(Singles(listing) + 1, k)>> \o listing
    /\ UNCHANGED <<token_input, secret_token, env_token, user_exists, fetch_out, parse_vars,
                   app_vars>>

\* The same, for a run of ordinary repositories.
PushBulk ==
    /\ fetch_pc = "idle"
    /\ user_exists
    /\ Bulks(listing) < MaxBulks
    /\ listing' = BulkRun(Bulks(listing) + 1) \o listing
    /\ UNCHANGED <<token_input, secret_token, env_token, user_exists, fetch_out, parse_vars,
                   app_vars>>

\* One call fetch_github_repos(username, token_input).
Fetch(fault) ==
    /\ fetch_pc = "idle"
    \* a fault is a failure of a call the code makes
    /\ fault.at = "get_rate_limit" => ~Truthy(ResolveToken(token_input, secret_token, env_token))
    /\ fault.at = "get_repos" => user_exists
    /\ LET out == fetch_github_repos(token_input, secret_token, env_token,
                                     user_exists, listing, fault)
       IN  /\ fetch_pc' = "fetched"
           /\ api_fault' = fault
           /\ github_token' = out.token
           /\ fetch_status' = out.status
           /\ fetch_result' = out.result
           /\ fetch_msgs' = out.msgs
    /\ UNCHANGED <<fetch_env, parse_vars, app_vars>>

NextFetch ==
    \/ \E k \in RepoKinds : PushRepo(k)
    \/ PushBulk
    \/ \E f \in Faults(listing) : Fetch(f)

SpecFetch == InitFetch /\ [][NextFetch]_vars

(***************************************************************************)
(* The response texts explored, and the actions of SpecParse               *)
(***************************************************************************)
\* The length of the free text that follows a heading.
MaxTail == 5

\* Headings the pattern is written for, and two it is not.
Numbered(t) == <<"*", "*", "1", ".", " ", t, "*", "*">>
Unnumbered(t) == <<"*", "*", t, "*", "*">>
Indented(t) == <<" ", "*", "*", "1", "1", ".", " ", " ", UpperCase(t), "*", "*">>
MidLine(t) == <<"a", "*", "*", t, "*", "*">>
TripleStar(t) == <<"*", "*", "*", t, "*", "*">>

\* The ways a response holds the section of title t.
SectionVariants(t) ==
    << \* the body on the line after the heading
       Numbered(t) \o <<"\n", "a">>,
       \* the body from the heading's line on, with white space around it
       Unnumbered(t) \o <<" ", "a", " ", "\n", "a", "\n">>,
       \* bold text inside a line and in a bullet
       Indented(t) \o <<"\n", "a", "*", "*", "a", "*", "*", " ", "\n",
                        "*", " ", "*", "*", "a", "*", "*">>,
       \* a line that opens a bold run and does not close it
       Numbered(t) \o <<"\n", "a", "\n", "*", "*", "a">>,
       \* no body
       Numbered(t),
       \* a body that starts with bold text, on the heading's line
       Unnumbered(t) \o <<" ", "*", "*", "a", "*", "*">>,
       \* a bold line right after the heading
       Numbered(t) \o <<"\n", "*", "*", "a", "*", "*", "\n", "a">>,
       \* the title in bold, but not at the start of a line
       MidLine(t) \o <<"\n", "a">>,
       \* three asterisks before the title
       TripleStar(t) \o <<"\n", "a">> >>

\* A choice of 0 leaves the section out.
VariantChoices == 0..Len(SectionVariants(""))

\* The chosen sections in the prompt's order, each on a line of its own.
RECURSIVE Compose(_, _)
Compose(choice, i) ==
    IF i > Len(sections_to_display) THEN <<>>
    ELSE LET rest == Compose(choice, i + 1)
             part == IF choice[i] = 0 THEN <<>>
                     ELSE SectionVariants(sections_to_display[i])[choice[i]]
         IN  IF part = <<>> THEN rest
             ELSE IF rest = <<>> THEN part
             ELSE part \o <<"\n">> \o rest

StructuredTexts ==
    { pre \o Compose(choice, 1) :
        pre \in {<<>>, <<"a", "\n">>},
        choice \in [1..Len(sections_to_display) -> VariantChoices] }

Tails(n) == UNION {[1..k -> {"*", "\n", " ", "a"}] : k \in 0..n}
FreeTexts == {Unnumbered("Skills to Highlight") \o tail : tail \in Tails(MaxTail)}

ErrorTexts ==
    { <<"Error:", " ", "a">>,
      <<"An error occurred during Gemini analysis:", " ", "a">>,
      <<"Error:", "\n">> \o Numbered("Resume Objective") \o <<"\n", "a">>,
      Numbered("Resume Objective") \o <<"\n", "a", "\n",
                                        "An error occurred during Gemini analysis:">>,
      <<"a", " ", "Error:">>,
      Numbered("Resume Objective") \o <<"\n", "a", " ", "Error:">>,
      <<" ">>, <<"\n">>, <<>> }

ResponseTexts == StructuredTexts \cup FreeTexts \cup ErrorTexts

InitParse ==
    /\ token_input = NoValue
    /\ secret_token = NoValue
    /\ env_token = NoValue
    /\ user_exists = FALSE
    /\ listing = <<>>
    /\ FetchIdle
    /\ analysis_text \in ResponseTexts
    /\ display_pc = "idle"
    /\ sections = NoSections
    /\ sections_found_count = 0
    /\ shown = {}
    /\ AppIdle

\* What a call of display_results leaves on the page.
Render(out) ==
    /\ sections' = out.sections
    /\ sections_found_count' = out.sections_found_count
    /\ shown' = out.shown

\* display_results(analysis_text)
DisplayResults ==
    /\ display_pc = "idle"
    /\ Render(display_results(analysis_text))
    /\ display_pc' = "displayed"
    /\ UNCHANGED <<analysis_text, fetch_env, fetch_out, app_vars>>

NextParse == DisplayResults

SpecParse == InitParse /\ [][NextParse]_vars

(***************************************************************************)
(* Claims about fetch_github_repos                                         *)
(***************************************************************************)
Fetched == fetch_pc = "fetched"
Succeeded == Fetched /\ fetch_status = "ok"

\* The repositories of the listing that are no forks, in the listing's order,
\* and the first n of a sequence.
NonForked(l) == SelectSeq(l, LAMBDA r : ~r.fork)
Take(l, n) == SubSeq(l, 1, Min(Len(l), n))
Retained == Take(NonForked(listing), max_repos_to_process)
ErrorMsgs == {"error: rate limit exceeded", "error: consider adding a token",
              "error: user not found", "error: unexpected"}

\* C1: a successful fetch returns at most 50 entries, none of them from a
\* forked repository, and every README excerpt is at most 8000 characters long.
C1_CapNoForkExcerpt ==
    Succeeded =>
        /\ Len(fetch_result) <= 50
        /\ \A i \in 1..Len(fetch_result) :
              /\ \E j \in 1..Len(listing) :
                    listing[j].name = fetch_result[i].name /\ ~listing[j].fork
              /\ fetch_result[i].readme.len <= 8000

\* The cap is reached with a fork in the listing and a README cut to 8000.
C1_Witness ==
    /\ Succeeded
    /\ Len(fetch_result) = 50
    /\ \E j \in 1..Len(listing) : listing[j].fork
    /\ \E i \in 1..Len(fetch_result) : \E j \in 1..Len(listing) :
          /\ listing[j].name = fetch_result[i].name
          /\ listing[j].readme.len > 8000
          /\ fetch_result[i].readme.len = 8000

\* C2 as amended: a nonexistent username ends in the UserNotFound handler, which
\* shows its error and not the notice of an empty success; an empty success
\* shows that notice and no error; the returned value is the empty list in both.
C2_UserNotFoundMessage ==
    /\ (Fetched /\ ~user_exists /\ api_fault = NoFault) =>
          /\ fetch_status = "UserNotFound"
          /\ "error: user not found" \in fetch_msgs
          /\ "sidebar warning: no non-forked repositories" \notin fetch_msgs
          /\ fetch_result = <<>>
    /\ (Succeeded /\ fetch_result = <<>>) =>
          /\ user_exists
          /\ "sidebar warning: no non-forked repositories" \in fetch_msgs
          /\ fetch_msgs \cap ErrorMsgs = {}

C2_Witness == Fetched /\ ~user_exists /\ api_fault = NoFault /\ fetch_status = "UserNotFound"

\* C2 as stated: the caller can tell the outcome for a nonexistent username from
\* a successful fetch with an empty result, by the value it is handed.
EmptySuccess ==
    fetch_github_repos(token_input, secret_token, env_token, TRUE, <<>>, NoFault)
C2_CallerTellsApart ==
    (Fetched /\ ~user_exists /\ api_fault = NoFault) =>
        /\ fetch_status = "UserNotFound"
        /\ fetch_result # EmptySuccess.result

\* C3: a successful fetch returns one summary per non-forked repository, in the
\* listing's order: all of them when there are at most 50, the first 50 otherwise.
C3_EncounterOrder ==
    Succeeded =>
        /\ Len(fetch_result) = Len(Retained)
        /\ \A i \in 1..Len(Retained) : fetch_result[i].name = Retained[i].name
        /\ Len(NonForked(listing)) <= 50 => Len(fetch_result) = Len(NonForked(listing))
        /\ Len(NonForked(listing)) > 50 => Len(fetch_result) = 50

\* More than 50 non-forked repositories, with a fork among the first 50.
C3_Witness ==
    /\ Succeeded
    /\ Len(NonForked(listing)) > 50
    /\ listing[2].fork
    /\ fetch_result[1].name = listing[1].name
    /\ fetch_result[2].name = listing[3].name

\* The credential a call authenticates with: none when the value is None or empty.
Effective(t) == IF Truthy(t) THEN t ELSE NoValue
SecretValue == IF secret_token = SecretsUnavailable THEN NoValue ELSE secret_token
FirstNonEmpty(cands) ==
    LET S == {i \in 1..Len(cands) : Truthy(cands[i])}
    IN  IF S = {} THEN NoValue ELSE cands[CHOOSE i \in S : \A j \in S : i <= j]

\* C4 as amended: the credential is the first non-empty value among the explicit
\* argument, the stored secret and the environment variable, and none when all
\* are absent or empty; the call is unauthenticated exactly when it is none.
C4_FirstNonEmptySource ==
    Fetched =>
        /\ Effective(github_token) = FirstNonEmpty(<<token_input, SecretValue, env_token>>)
        /\ ("sidebar warning: unauthenticated access" \in fetch_msgs)
              <=> (Effective(github_token) = NoValue)

\* The secret is used over the environment variable.
C4_Witness ==
    /\ Fetched
    /\ ~Truthy(token_input) /\ Truthy(SecretValue) /\ Truthy(env_token)
    /\ github_token = secret_token

\* C4 as stated: the explicit argument if non-empty, otherwise the stored secret
\* if present, otherwise the environment variable if set, otherwise none.
C4_SecretIfPresent ==
    Fetched =>
        Effective(github_token) =
            Effective(IF Truthy(token_input) THEN token_input
                      ELSE IF SecretValue # NoValue THEN SecretValue
                      ELSE IF env_token # NoValue THEN env_token
                      ELSE NoValue)

\* C5: a README that cannot be retrieved or decoded neither fails the fetch nor
\* drops its repository: the repository is returned with an empty excerpt, and
\* the repositories after it are returned too.
C5_ReadmeFailureSwallowed ==
    (Fetched /\ user_exists /\ api_fault = NoFault) =>
        /\ fetch_status = "ok"
        /\ Len(fetch_result) = Len(Retained)
        /\ \A i \in 1..Len(Retained) :
              Retained[i].readme.kind # "text" =>
                  /\ fetch_result[i].name = Retained[i].name
                  /\ fetch_result[i].readme = EmptyText

\* A README failure, with a repository after it that is returned with its README.
C5_Witness ==
    /\ Succeeded
    /\ \E i \in 1..Len(Retained) :
          /\ Retained[i].readme.kind \notin {"text", "UnknownObjectException"}
          /\ fetch_result[i].readme = EmptyText
          /\ i < Len(fetch_result)
          /\ fetch_result[i + 1].readme # EmptyText

\* The quota is exhausted in a call outside the README retrieval.
QuotaExhaustedInCall == api_fault.kind = "RateLimitExceededException"
\* The quota is exhausted in the README retrieval of a repository the loop reaches.
QuotaExhaustedInReadme ==
    /\ user_exists
    /\ api_fault = NoFault
    /\ \E i \in 1..Len(Retained) : Retained[i].readme.kind = "RateLimitExceededException"

\* C6 as amended: unauthenticated access alone shows a warning and the fetch
\* succeeds; a quota exhausted in the rate-limit query, the user lookup or the
\* iteration of the listing ends the fetch in the AuthRateLimited handler; a
\* quota exhausted in a README retrieval is swallowed and the fetch succeeds.
C6_WarningOrRateLimited ==
    /\ (Fetched /\ ~Truthy(github_token) /\ user_exists /\ api_fault = NoFault) =>
          /\ "sidebar warning: unauthenticated access" \in fetch_msgs
          /\ fetch_msgs \cap ErrorMsgs = {}
          /\ fetch_status = "ok"
    /\ (Fetched /\ QuotaExhaustedInCall) =>
          /\ fetch_status = "AuthRateLimited"
          /\ "error: rate limit exceeded" \in fetch_msgs
          /\ fetch_result = <<>>
    /\ (Fetched /\ QuotaExhaustedInReadme) => fetch_status = "ok"

\* An unauthenticated fetch whose listing fails on its second page.
C6_Witness ==
    /\ Fetched
    /\ ~Truthy(github_token)
    /\ api_fault.at = "get_repos" /\ api_fault.pos > 0 /\ QuotaExhaustedInCall
    /\ fetch_status = "AuthRateLimited"

\* C6 as stated: a quota exhausted at any point of the fetch ends it in
\* AuthRateLimited, never in a successful result.
C6_RateLimitedAnywhere ==
    (Fetched /\ (QuotaExhaustedInCall \/ QuotaExhaustedInReadme)) =>
        fetch_status = "AuthRateLimited"

\* A failure the call met outside the README retrieval.
CallFailed == api_fault # NoFault \/ ~user_exists

\* C18: every call returns a list and ends in the normal return or in one of
\* the three handlers; a call that met a failure outside the README retrieval
\* (rate-limit query, user lookup, listing raised partway) returns the empty
\* list even when summaries had been collected, and a call that met none
\* returns a summary for every retained repository.
C18_ListNeverPartial ==
    Fetched =>
        /\ fetch_status \in {"ok", "AuthRateLimited", "UserNotFound", "TransientError"}
        /\ DOMAIN fetch_result = 1..Len(fetch_result)
        /\ CallFailed => fetch_status # "ok" /\ fetch_result = <<>>
        /\ ~CallFailed => fetch_status = "ok" /\ Len(fetch_result) = Len(Retained)

\* The listing raised after it had yielded repositories that are no forks.
C18_Witness ==
    /\ Fetched
    /\ api_fault.at = "get_repos"
    /\ api_fault.pos > 0
    /\ NonForked(SubSeq(listing, 1, api_fault.pos)) # <<>>
    /\ fetch_result = <<>>

(***************************************************************************)
(* Claims about extract_section and display_results                        *)
(***************************************************************************)
Displayed == display_pc = "displayed"
Extracted == Displayed /\ ~IsErrorText(analysis_text)

\* The lines of a text, by the positions where they start; blanks are the white
\* space that stays within a line.
LineStarts(text) == {1} \cup {p + 1 : p \in {k \in 1..Len(text) : text[k] = "\n"}}
Blanks == {" "}
LineEnd(text, p) ==
    CHOOSE q \in p..(Len(text) + 1) :
        /\ \A k \in p..(q - 1) : text[k] # "\n"
        /\ At(text, q) \in {"\n", EndOfText}
First(S) == CHOOSE x \in S : \A y \in S : x <= y

\* The line starting at ls opens with a bold, optionally numbered heading of
\* title t: the position after the heading, 0 otherwise.
HeadingOn(text, ls, t) ==
    LET q == RunEnd(text, ls, Blanks)
        d == RunEnd(text, q + 2, Digits)
        w == RunEnd(text, d + 1, Blanks)
        n == IF d > q + 2 /\ At(text, d) = "." /\ w > d + 1 THEN w ELSE q + 2
    IN  IF BoldAt(text, q) /\ CaseFold(At(text, n)) = CaseFold(t) /\ BoldAt(text, n + 1)
        THEN n + 3 ELSE 0
HeadingLines(text, t) == {ls \in LineStarts(text) : HeadingOn(text, ls, t) # 0}

\* A well-formed heading: the heading is all its line holds.
WellFormedHeading(text, ls, t) ==
    /\ HeadingOn(text, ls, t) # 0
    /\ RunEnd(text, HeadingOn(text, ls, t), Blanks) = LineEnd(text, ls)

\* A bold heading line: after blanks it opens a bold run and closes it.
BoldHeadingLine(text, ls) ==
    LET q == RunEnd(text, ls, Blanks)
    IN  /\ BoldAt(text, q)
        /\ \E r \in (q + 2)..(LineEnd(text, ls) - 2) : BoldAt(text, r)

\* The text between the end of the first heading of t and the next bold heading
\* line, or the end of the text, stripped.
BodyByLines(text, t) ==
    LET h == HeadingOn(text, First(HeadingLines(text, t)), t)
        next == {ls \in LineStarts(text) : ls >= h /\ BoldHeadingLine(text, ls)}
        e == IF next = {} THEN Len(text) + 1 ELSE First(next)
    IN  Strip(SubSeq(text, h, e - 1))

AllFourWellFormed(text) ==
    \A t \in Titles :
        /\ HeadingLines(text, t) # {}
        /\ WellFormedHeading(text, First(HeadingLines(text, t)), t)
        /\ BodyByLines(text, t) # <<>>

\* C7: when the text holds a well-formed bold heading for each of the four
\* titles, each followed by a non-empty body, all four sections are returned, and
\* each body is the stripped text between its heading and the next bold heading
\* line or the end of the text.
C7_AllFourBounded ==
    (Extracted /\ AllFourWellFormed(analysis_text)) =>
        \A t \in Titles : sections[t] = Body(BodyByLines(analysis_text, t))

\* C8: when no line of a non-empty, non-error text is a heading of one of the
\* four titles, no section is extracted and the whole text is shown as the
\* fallback; the fallback is shown exactly when no section was found in a
\* non-empty, non-error text, and then the collapsed raw response is not.
FallbackPanel == Panel("raw response (parsing failed)", "", analysis_text)
C8_FallbackIffNoSection ==
    Displayed =>
        /\ (/\ analysis_text # <<>>
            /\ ~IsErrorText(analysis_text)
            /\ \A t \in Titles : HeadingLines(analysis_text, t) = {}) =>
                /\ \A t \in Titles : ~sections[t].found
                /\ FallbackPanel \in shown
        /\ (\E x \in shown : x.panel = "raw response (parsing failed)") <=>
                /\ sections_found_count = 0
                /\ \A t \in Titles : ~sections[t].found
                /\ analysis_text # <<>>
                /\ ~IsErrorText(analysis_text)
        /\ \A x \in shown : x.panel = "raw response (parsing failed)" => x = FallbackPanel
        /\ FallbackPanel \in shown => Panel("raw response", "", analysis_text) \notin shown

\* The titles occur in the text, none as a heading, and the fallback is shown.
C8_Witness ==
    /\ Displayed
    /\ \E p \in 1..Len(analysis_text) : analysis_text[p] \in Titles
    /\ \A t \in Titles : HeadingLines(analysis_text, t) = {}
    /\ FallbackPanel \in shown

\* match.group(2).strip() of the search for title t, when there is a match.
Captured(t) == Strip(Search(analysis_text, t).group2)
Matched(t) == Search(analysis_text, t).found

\* C9: extract_section returns no empty body and no body that begins with "**";
\* a match whose stripped capture is empty or begins with "**" is reported as
\* not found, is shown as a warning, and is not counted in sections_found_count.
C9_NoEmptyNoBoldBody ==
    Extracted =>
        /\ \A t \in Titles :
              /\ sections[t].found =>
                    /\ sections[t].content # <<>>
                    /\ ~StartsWithBold(sections[t].content)
              /\ (Matched(t) /\ (Captured(t) = <<>> \/ StartsWithBold(Captured(t)))) =>
                    /\ sections[t] = NotFound
                    /\ Panel("warning: could not extract", t, <<>>) \in shown
                    /\ \A x \in shown : x.title = t => x.panel = "warning: could not extract"
        /\ sections_found_count =
              Cardinality({t \in Titles :
                  Matched(t) /\ Captured(t) # <<>> /\ ~StartsWithBold(Captured(t))})

\* One capture begins with "**", one is empty, and one section is returned.
C9_Witness ==
    /\ Extracted
    /\ \E t \in Titles : Matched(t) /\ StartsWithBold(Captured(t)) /\ ~sections[t].found
    /\ \E t \in Titles : Matched(t) /\ Captured(t) = <<>> /\ ~sections[t].found
    /\ sections_found_count = 1

RawKinds == {"raw response (parsing failed)", "raw response"}
RawShown == {x \in shown : x.panel \in RawKinds}

\* C20: for a text that starts with "Error:" or contains "An error occurred
\* during Gemini analysis:" nothing is extracted and only the failure message
\* is shown, no section and no raw panel; for any other non-empty text exactly
\* one raw panel is shown, holding the text: the parsing-failed fallback when
\* no section was found, the collapsed raw response when one was.
C20_ErrorReturnsElseOneRawPanel ==
    Displayed =>
        /\ IsErrorText(analysis_text) =>
              /\ sections = NoSections
              /\ sections_found_count = 0
              /\ shown = {Panel("error: analysis failed", "", analysis_text)}
        /\ (~IsErrorText(analysis_text) /\ analysis_text # <<>>) =>
              RawShown = {Panel(IF sections_found_count = 0
                                THEN "raw response (parsing failed)"
                                ELSE "raw response", "", analysis_text)}

\* An error text with a heading and a body that the extraction would return.
C20_Witness ==
    /\ Displayed
    /\ IsErrorText(analysis_text)
    /\ \E t \in Titles : Matched(t) /\ Captured(t) # <<>> /\ ~StartsWithBold(Captured(t))
    /\ RawShown = {}

(***************************************************************************)
(* analyze_with_gemini and answer_with_gemini                              *)
(*                                                                         *)
(* str(e) is a sequence of tokens, one for each run of characters that     *)
(* the handler looks for, in several spellings, and "a" for anything else. *)
(***************************************************************************)
ErrorTokens ==
    {"API key not valid", "api key not valid", "quota", "Quota", "QUOTA",
     "blocked", "Blocked", "a"}

\* str.lower() of one token, and of a text.
Lower(c) ==
    CASE c = "API key not valid" -> "api key not valid"
      [] c \in {"Quota", "QUOTA"} -> "quota"
      [] c = "Blocked" -> "blocked"
      [] OTHER -> c
LowerText(text) == [i \in 1..Len(text) |-> Lower(text[i])]

\* needle in text
Contains(text, needle) == \E i \in 1..Len(text) : text[i] = needle

\* What the client does with one call: raises names the call that raises
\* ("none" when the request succeeds), error is str(e), text is response.text.
Responds(text) == [raises |-> "none", error |-> <<>>, text |-> text]
Raises(at, error) == [raises |-> at, error |-> error, text |-> <<>>]
ClientCalls == {"genai.configure", "GenerativeModel", "generate_content", "response.text"}

\* The value returned at lines 131 and 360.
MissingKeyText == <<"Error:", " ", "Gemini API key is missing.">>
\* The value returned at lines 192 and 404.
FailureText(error) == <<"An error occurred during Gemini analysis:", " ">> \o error

\* ErrorBranch with the tests for "quota" and "blocked" in the other order.
ErrorBranch_BlockedFirst(error) ==
    IF Contains(error, "API key not valid") THEN "InvalidKey"
    ELSE IF Contains(LowerText(error), "blocked") THEN "ContentBlocked"
    ELSE IF Contains(LowerText(error), "quota") THEN "QuotaExceeded"
    ELSE "TransientError"

\* Lines 186-191 and 398-403: the branch of the if / elif chain.
ErrorBranch(error) ==
    IF Contains(error, "API key not valid") THEN "InvalidKey"
    ELSE IF Contains(LowerText(error), "quota") THEN "QuotaExceeded"
    ELSE IF Contains(LowerText(error), "blocked") THEN "ContentBlocked"
    ELSE "TransientError"

\* The message of a branch; the last one has none.
BranchMsgs(branch) ==
    CASE branch = "InvalidKey" -> {"error: invalid Gemini API key"}
      [] branch = "QuotaExceeded" -> {"error: quota exceeded"}
      [] branch = "ContentBlocked" -> {"error: content was blocked"}
      [] OTHER -> {}

\* Lines 184-192 and 396-404: the handler, the call having gone as far as
\* configured and sent say.
ExceptHandler(error, configured, sent) ==
    [status |-> ErrorBranch(error), text |-> FailureText(error),
     configured |-> configured, sent |-> sent,
     msgs |-> {"error: error analyzing with Gemini"} \cup BranchMsgs(ErrorBranch(error))]

\* Lines 133-183 and 362-395: the calls made with a key, in their order.
ClientRun(svc, prompt) ==
    IF svc.raises = "genai.configure" THEN ExceptHandler(svc.error, FALSE, <<>>)
    ELSE IF svc.raises = "GenerativeModel" THEN ExceptHandler(svc.error, TRUE, <<>>)
    ELSE IF svc.raises \in {"generate_content", "response.text"}
    THEN ExceptHandler(svc.error, TRUE, <<prompt>>)
    ELSE [status |-> "ok", text |-> svc.text, configured |-> TRUE, sent |-> <<prompt>>,
          msgs |-> {}]

\* GeminiCall without the test of the key.
GeminiCall_NoKeyTest(api_key, svc, prompt) ==
    ClientRun(svc, prompt)

\* Lines 127-192 and 356-404: [status, text, configured, sent, msgs].
GeminiCall(api_key, svc, prompt) ==
    IF ~Truthy(api_key)
    THEN [status |-> "MissingKey", text |-> MissingKeyText, configured |-> FALSE,
          sent |-> <<>>, msgs |-> {"error: Gemini API key is missing"}]
    ELSE ClientRun(svc, prompt)

\* The prompts: what of the arguments they hold.
AnalyzePrompt(github_data, resume_text, job_description, role, company) ==
    [task |-> "analyze", resume_text |-> resume_text, github_data |-> github_data,
     role |-> role, company |-> company, job_description |-> job_description,
     question |-> NoValue]
AnswerPrompt(github_data, resume_text, question, job_role, Company_name, job_description) ==
    [task |-> "answer", resume_text |-> resume_text, github_data |-> github_data,
     role |-> job_role, company |-> Company_name, job_description |-> job_description,
     question |-> question]

\* Lines 125-192.
analyze_with_gemini(api_key, svc, github_data, resume_text, job_description, role, company) ==
    GeminiCall(api_key, svc,
               AnalyzePrompt(github_data, resume_text, job_description, role, company))

\* Lines 354-404.
answer_with_gemini(api_key, svc, github_data, resume_text, question, job_role, Company_name, job_description) ==
    GeminiCall(api_key, svc,
               AnswerPrompt(github_data, resume_text, question, job_role, Company_name,
                            job_description))

(***************************************************************************)
(* SpecGemini: one call of either function                                 *)
(***************************************************************************)
\* The length of the explored error texts.
MaxErrorLen == 2

ServiceErrors == UNION {[1..k -> ErrorTokens] : k \in 0..MaxErrorLen}
ServiceOutcomes ==
    {Responds(t) : t \in {<<>>, <<"a">>, Numbered("Resume Objective") \o <<"\n", "a">>}}
    \cup {Raises(at, e) : at \in ClientCalls, e \in ServiceErrors}

InitGemini ==
    /\ token_input = NoValue
    /\ secret_token = NoValue
    /\ env_token = NoValue
    /\ user_exists = FALSE
    /\ listing = <<>>
    /\ FetchIdle
    /\ ParseIdle
    /\ gemini_api_key \in {NoValue, "", "key"}
    /\ service \in ServiceOutcomes
    /\ GeminiOutIdle
    /\ ScriptIdle

\* What a call leaves behind.
GeminiReturn(fn, out) ==
    /\ gemini_pc' = "returned"
    /\ gemini_fn' = fn
    /\ client_configured' = out.configured
    /\ requests_sent' = out.sent
    /\ gemini_status' = out.status
    /\ gemini_text' = out.text
    /\ gemini_msgs' = out.msgs

Analyze ==
    /\ gemini_pc = "idle"
    /\ GeminiReturn("analyze_with_gemini",
                    analyze_with_gemini(gemini_api_key, service, <<>>, "resume",
                                        "description", "role", "company"))
    /\ UNCHANGED <<fetch_env, fetch_out, parse_vars, gemini_env, session, cache_vars, run_vars, launcher>>

Answer ==
    /\ gemini_pc = "idle"
    /\ GeminiReturn("answer_with_gemini",
                    answer_with_gemini(gemini_api_key, service, <<>>, "resume", "question",
                                       "role", "company", "description"))
    /\ UNCHANGED <<fetch_env, fetch_out, parse_vars, gemini_env, session, cache_vars, run_vars, launcher>>

NextGemini == Analyze \/ Answer

SpecGemini == InitGemini /\ [][NextGemini]_vars

(***************************************************************************)
(* Claims about analyze_with_gemini and answer_with_gemini                 *)
(***************************************************************************)
Returned == gemini_pc = "returned"

\* C11: when the session holds no API key (None or the empty string), either
\* function returns the missing-key error text and shows the missing-key
\* message, and it has neither configured the client nor sent any request.
C11_MissingKeyNoRequest ==
    (Returned /\ gemini_api_key \in {NoValue, ""}) =>
        /\ gemini_status = "MissingKey"
        /\ gemini_text = MissingKeyText
        /\ gemini_msgs = {"error: Gemini API key is missing"}
        /\ ~client_configured
        /\ requests_sent = <<>>

\* answer_with_gemini has returned, the key was missing, and the client would
\* have raised had it been called.
C11_Witness ==
    /\ Returned
    /\ gemini_fn = "answer_with_gemini"
    /\ gemini_api_key = NoValue
    /\ service.raises = "genai.configure"
    /\ gemini_status = "MissingKey"

\* The spellings of a word that str.lower() maps to it.
AnyCase(word) == {c \in ErrorTokens : Lower(c) = word}
Mentions(error, words) == \E i \in 1..Len(error) : error[i] \in words

\* C12: a call that fails with a key present ends in exactly one of the four
\* classes, chosen by the error text: 'API key not valid' (in this spelling)
\* gives InvalidKey; otherwise 'quota' in any case gives QuotaExceeded;
\* otherwise 'blocked' in any case gives ContentBlocked; otherwise the failure
\* is the generic one, with no message of its own.  In each case the function
\* returns the error text that carries str(e); nothing is raised.
C12_ClassifiedByErrorText ==
    (Returned /\ Truthy(gemini_api_key) /\ service.raises # "none") =>
        /\ gemini_status \in {"InvalidKey", "QuotaExceeded", "ContentBlocked", "TransientError"}
        /\ gemini_status = "InvalidKey" <=> Mentions(service.error, {"API key not valid"})
        /\ gemini_status = "QuotaExceeded" <=>
              /\ ~Mentions(service.error, {"API key not valid"})
              /\ Mentions(service.error, AnyCase("quota"))
        /\ gemini_status = "ContentBlocked" <=>
              /\ ~Mentions(service.error, {"API key not valid"})
              /\ ~Mentions(service.error, AnyCase("quota"))
              /\ Mentions(service.error, AnyCase("blocked"))
        /\ gemini_msgs \ {"error: error analyzing with Gemini"} = BranchMsgs(gemini_status)
        /\ Cardinality(gemini_msgs) <= 2
        /\ gemini_text = <<"An error occurred during Gemini analysis:", " ">> \o service.error
        /\ IsErrorText(gemini_text)

\* The request failed with an error text that names both the safety filter
\* and the quota, in this order and not in lower case.
C12_Witness ==
    /\ Returned
    /\ gemini_fn = "analyze_with_gemini"
    /\ service = Raises("generate_content", <<"Blocked", "QUOTA">>)
    /\ gemini_status = "QuotaExceeded"
    /\ requests_sent # <<>>

(***************************************************************************)
(* The script of app.py: the sidebar and the cached fetch                  *)
(***************************************************************************)
\* Lines 273-274: the username is stored only when the field holds one.
StoreUsername(stored, github_username_input) ==
    IF Truthy(github_username_input) THEN github_username_input ELSE stored

\* Lines 286, 492 and 587: st.cache_data(ttl=600).
ttl == 600
Fresh(entry, t) == entry.present /\ t - entry.stored < ttl

\* fetch_github_repos(username, token) against the account as it is now.
CallFetch(username, token) ==
    fetch_github_repos(token, secret_token, env_token, user_exists, listing, NoFault)

\* One call of fetch_github_repos: where in the script, through which function.
ApiCall(site, via, out) == [site |-> site, via |-> via, status |-> out.status]

\* The cache after a miss: the value the function returned, whatever it is.
Stored(cache, t, username, token, out) ==
    [cache EXCEPT ![<<username, token>>] = [present |-> TRUE, stored |-> t, value |-> out.result]]
Missed(site, cache, t, username, token, out) ==
    [cache |-> Stored(cache, t, username, token, out), value |-> out.result,
     calls |-> <<ApiCall(site, "cached_fetch_github_repos", out)>>]

\* Lines 286-289, 492-495 and 587-590: the three definitions have one name
\* and one body; they are given one cache.
cached_fetch_github_repos(site, cache, t, username, token) ==
    IF Fresh(cache[<<username, token>>], t)
    THEN [cache |-> cache, value |-> cache[<<username, token>>].value, calls |-> <<>>]
    ELSE Missed(site, cache, t, username, token, CallFetch(username, token))

\* Lines 290-291, 496-501 and 591-596: `if not ...:` calls the function itself.
DirectIfEmpty(site, username, token, cached) ==
    IF cached.value = <<>>
    THEN [cache |-> cached.cache, value |-> CallFetch(username, token).result,
          calls |-> Append(cached.calls,
                           ApiCall(site, "fetch_github_repos", CallFetch(username, token)))]
    ELSE cached

FetchRepos(site, cache, t, username, token) ==
    DirectIfEmpty(site, username, token,
                  cached_fetch_github_repos(site, cache, t, username, token))

NoFetch(cache) == [cache |-> cache, value |-> <<>>, calls |-> <<>>]

\* Lines 280-306: the preview of the sidebar.
Preview(show, cache, t, username, token) ==
    IF show /\ Truthy(username)
    THEN FetchRepos("preview", cache, t, username, token)
    ELSE NoFetch(cache)
PreviewMsgs(show, username) ==
    IF show /\ ~Truthy(username)
    THEN {"warning: enter a GitHub username first"} ELSE {}

(***************************************************************************)
(* The script of app.py: the upload of the resume                          *)
(***************************************************************************)
\* What a file holds, and bytes_data.decode("utf-8").
Undecodable == "bytes(0xff)"
Decode(bytes) ==
    CASE bytes = "bytes()" -> ""
      [] bytes = "bytes(resume 1)" -> "resume 1"
      [] bytes = "bytes(resume 2)" -> "resume 2"
      [] OTHER -> NoValue
File(name, bytes) == [name |-> name, bytes |-> bytes]

\* HandleUpload with an except clause that resets the content alone.
HandleUpload_KeepsFilename(content, filename, file) ==
    IF file # NoFile
    THEN IF file.name # filename
         THEN IF file.bytes # Undecodable
              THEN [content |-> Decode(file.bytes), filename |-> file.name, read |-> TRUE,
                    msgs |-> {"success: uploaded and read"}]
              ELSE [content |-> NoValue, filename |-> filename, read |-> TRUE,
                    msgs |-> {"error: reading uploaded file"}]
         ELSE [content |-> content, filename |-> filename, read |-> FALSE, msgs |-> {}]
    ELSE IF filename # NoValue
         THEN [content |-> NoValue, filename |-> NoValue, read |-> FALSE, msgs |-> {}]
         ELSE [content |-> content, filename |-> filename, read |-> FALSE, msgs |-> {}]

\* Lines 322-343: the new uploaded_resume_content and uploaded_resume_filename.
HandleUpload(content, filename, file) ==
    IF file # NoFile
    THEN IF file.name # filename
         THEN IF file.bytes # Undecodable
              THEN [content |-> Decode(file.bytes), filename |-> file.name, read |-> TRUE,
                    msgs |-> {"success: uploaded and read"}]
              ELSE [content |-> NoValue, filename |-> NoValue, read |-> TRUE,
                    msgs |-> {"error: reading uploaded file"}]
         ELSE [content |-> content, filename |-> filename, read |-> FALSE, msgs |-> {}]
    ELSE IF filename # NoValue
         THEN [content |-> NoValue, filename |-> NoValue, read |-> FALSE, msgs |-> {}]
         ELSE [content |-> content, filename |-> filename, read |-> FALSE, msgs |-> {}]

(***************************************************************************)
(* The script of app.py: the two submit flows                              *)
(***************************************************************************)
\* What the form returned: question_input, job_role_input, company_name_input
\* and job_description_input.
FormInput(question, job_role, company_name, job_description) ==
    [question |-> question, job_role |-> job_role, company_name |-> company_name,
     job_description |-> job_description]

\* Lines 442-445 and 539-541: the inputs kept in the session.
Persist(form, btn, inp) ==
    IF btn = "ask" THEN inp
    ELSE IF btn = "submit" THEN [inp EXCEPT !.question = form.question]
    ELSE form

\* Lines 112-122.
get_resume_content(content) ==
    IF Truthy(content) THEN [text |-> content, source |-> "upload"]
    ELSE [text |-> "", source |-> "none"]

\* Lines 455-463 and 550-558.
ResumeOk(resume) ==
    ~(~Truthy(resume.text) /\ resume.source # "error") /\ resume.source # "error"
ResumeMsgs(resume) ==
    IF ~Truthy(resume.text) /\ resume.source # "error" THEN {"error: no resume found"}
    ELSE IF resume.source = "error" THEN {}
    ELSE IF resume.source = "upload" THEN {"info: using uploaded resume"}
    ELSE {}

\* `if not value: st.error(msg)`
Require(value, msg) == IF Truthy(value) THEN {} ELSE {msg}

\* The messages of lines 545-574, and those of lines 447-478.
SubmitMsgs(ses, inp) ==
    Require(ses.key, "error: enter your Gemini API key")
    \cup ResumeMsgs(get_resume_content(ses.content))
    \cup Require(ses.username, "warning: GitHub username is not entered")
    \cup Require(inp.job_role, "error: enter the job position")
    \cup Require(inp.company_name, "error: enter the company name")
    \cup Require(inp.job_description, "error: enter a job description")
AskMsgs(ses, inp) ==
    Require(inp.question, "error: enter your question") \cup SubmitMsgs(ses, inp)

\* SubmitValid with the company's test showing its message and no more.
SubmitValid_CompanyNotBlocking(ses, inp) ==
    /\ Truthy(ses.key)
    /\ ResumeOk(get_resume_content(ses.content))
    /\ Truthy(inp.job_role)
    /\ Truthy(inp.job_description)

\* valid_inputs at line 577, and at line 482.
SubmitValid(ses, inp) ==
    /\ Truthy(ses.key)
    /\ ResumeOk(get_resume_content(ses.content))
    /\ Truthy(inp.job_role)
    /\ Truthy(inp.company_name)
    /\ Truthy(inp.job_description)
AskValid(ses, inp) ==
    Truthy(inp.question) /\ SubmitValid(ses, inp)

\* Lines 487-506 and 582-601: the fetch is made only with a username.
FlowFetch(site, cache, t, ses) ==
    IF Truthy(ses.username) THEN FetchRepos(site, cache, t, ses.username, ses.token)
    ELSE NoFetch(cache)

NoGemini == [status |-> "none", text |-> <<>>, configured |-> FALSE, sent |-> <<>>, msgs |-> {}]
NoDisplay == [sections |-> NoSections, sections_found_count |-> 0, shown |-> {}]

\* A run of the script that makes no call: [valid_inputs, msgs, cache, calls,
\* github_data, fn, gemini, displayed, display].
NotProceeding(msgs, cache) ==
    [valid_inputs |-> FALSE, msgs |-> msgs, cache |-> cache, calls |-> <<>>,
     github_data |-> <<>>, fn |-> "none", gemini |-> NoGemini, displayed |-> FALSE,
     display |-> NoDisplay]

\* Lines 608-626: the generative call and display_results.
SubmitShow(msgs, fetched, gemini) ==
    [valid_inputs |-> TRUE, msgs |-> msgs, cache |-> fetched.cache, calls |-> fetched.calls,
     github_data |-> fetched.value, fn |-> "analyze_with_gemini", gemini |-> gemini,
     displayed |-> TRUE, display |-> display_results(gemini.text)]
SubmitProceed(msgs, fetched, ses, svc, inp) ==
    SubmitShow(msgs, fetched,
               analyze_with_gemini(ses.key, svc, fetched.value,
                                   get_resume_content(ses.content).text,
                                   inp.job_description, inp.job_role, inp.company_name))

\* Lines 537-628.
SubmitFlow(ses, cache, t, svc, inp) ==
    IF SubmitValid(ses, inp)
    THEN SubmitProceed(SubmitMsgs(ses, inp), FlowFetch("submit", cache, t, ses), ses, svc, inp)
    ELSE NotProceeding(SubmitMsgs(ses, inp) \cup {"warning: analysis cannot proceed"}, cache)

\* Lines 513-531: the generative call, st.header and st.markdown.
AskShow(msgs, fetched, gemini, inp) ==
    [valid_inputs |-> TRUE, msgs |-> msgs, cache |-> fetched.cache, calls |-> fetched.calls,
     github_data |-> fetched.value, fn |-> "answer_with_gemini", gemini |-> gemini,
     displayed |-> FALSE,
     display |-> [sections |-> NoSections, sections_found_count |-> 0,
                  shown |-> {Panel("header", inp.question, <<>>),
                             Panel("markdown", "", gemini.text)}]]
AskProceed(msgs, fetched, ses, svc, inp) ==
    AskShow(msgs, fetched,
            answer_with_gemini(ses.key, svc, fetched.value,
                               get_resume_content(ses.content).text, inp.question,
                               inp.job_role, inp.company_name, inp.job_description),
            inp)

\* Lines 441-531.
AskFlow(ses, cache, t, svc, inp) ==
    IF AskValid(ses, inp)
    THEN AskProceed(AskMsgs(ses, inp), FlowFetch("ask", cache, t, ses), ses, svc, inp)
    ELSE NotProceeding(AskMsgs(ses, inp), cache)

\* Lines 441 and 537: the flow of the button that was pressed, if any.
Flow(btn, ses, cache, t, svc, inp) ==
    IF btn = "ask" THEN AskFlow(ses, cache, t, svc, inp)
    ELSE IF btn = "submit" THEN SubmitFlow(ses, cache, t, svc, inp)
    ELSE NotProceeding({}, cache)

(***************************************************************************)
(* The script of app.py: one run, in three steps                           *)
(***************************************************************************)
SidebarEffects(preview) ==
    /\ fetch_cache' = preview.cache
    /\ api_calls' = preview.calls

\* Lines 241-306, the widgets returning key, pat, github_username_input and,
\* for the preview checkbox, show.
RunSidebar(key, pat, github_username_input, show) ==
    /\ run_pc = "sidebar"
    /\ show_github_sidebar' = show
    /\ gemini_api_key' = key
    /\ github_pat' = pat
    /\ github_username' = StoreUsername(github_username, github_username_input)
    /\ SidebarEffects(Preview(show, fetch_cache, now,
                              StoreUsername(github_username, github_username_input), pat))
    /\ page_msgs' = PreviewMsgs(show, StoreUsername(github_username, github_username_input))
    /\ run_pc' = "upload"
    /\ UNCHANGED <<fetch_env, fetch_out, parse_vars, service, gemini_out,
                   uploaded_resume_content, uploaded_resume_filename, session_form, now,
                   uploaded_file, file_read, button, valid_inputs, github_data_main, launcher>>

UploadEffects(out) ==
    /\ uploaded_resume_content' = out.content
    /\ uploaded_resume_filename' = out.filename
    /\ file_read' = out.read
    /\ page_msgs' = page_msgs \cup out.msgs

\* Lines 315-343, the uploader returning file.
RunUpload(file) ==
    /\ run_pc = "upload"
    /\ uploaded_file' = file
    /\ UploadEffects(HandleUpload(uploaded_resume_content, uploaded_resume_filename, file))
    /\ run_pc' = "form"
    /\ UNCHANGED <<fetch_env, fetch_out, parse_vars, gemini_env, gemini_out, github_pat,
                   github_username, session_form, cache_vars, button, valid_inputs,
                   api_calls, github_data_main, show_github_sidebar, launcher>>

FlowEffects(out) ==
    /\ valid_inputs' = out.valid_inputs
    /\ page_msgs' = page_msgs \cup out.msgs
    /\ fetch_cache' = out.cache
    /\ api_calls' = api_calls \o out.calls
    /\ github_data_main' = out.github_data
    /\ gemini_pc' = IF out.fn = "none" THEN "idle" ELSE "returned"
    /\ gemini_fn' = out.fn
    /\ client_configured' = out.gemini.configured
    /\ requests_sent' = out.gemini.sent
    /\ gemini_status' = out.gemini.status
    /\ gemini_text' = out.gemini.text
    /\ gemini_msgs' = out.gemini.msgs
    /\ analysis_text' = IF out.displayed THEN out.gemini.text ELSE <<>>
    /\ display_pc' = IF out.displayed THEN "displayed" ELSE "idle"
    /\ Render(out.display)

Session == [key |-> gemini_api_key, content |-> uploaded_resume_content,
            username |-> github_username, token |-> github_pat]

\* Lines 412-628, the form returning inp and the pressed button btn, and the
\* generative client behaving as svc.
RunForm(btn, inp, svc) ==
    /\ run_pc = "form"
    /\ button' = btn
    /\ service' = svc
    /\ session_form' = Persist(session_form, btn, inp)
    /\ FlowEffects(Flow(btn, Session, fetch_cache, now, svc, inp))
    /\ run_pc' = "done"
    /\ UNCHANGED <<fetch_env, fetch_out, gemini_api_key, github_pat, github_username,
                   uploaded_resume_content, uploaded_resume_filename, now, uploaded_file,
                   file_read, show_github_sidebar, launcher>>

\* The run is over; the next interaction of the user starts a new one, on an
\* empty page.
EndRerun ==
    /\ run_pc = "done"
    /\ run_pc' = "sidebar"
    /\ show_github_sidebar' = FALSE
    /\ uploaded_file' = NoFile
    /\ file_read' = FALSE
    /\ button' = "none"
    /\ valid_inputs' = FALSE
    /\ page_msgs' = {}
    /\ api_calls' = <<>>
    /\ github_data_main' = <<>>
    /\ gemini_pc' = "idle"
    /\ gemini_fn' = "none"
    /\ client_configured' = FALSE
    /\ requests_sent' = <<>>
    /\ gemini_status' = "none"
    /\ gemini_text' = <<>>
    /\ gemini_msgs' = {}
    /\ analysis_text' = <<>>
    /\ display_pc' = "idle"
    /\ Render(NoDisplay)
    /\ UNCHANGED <<fetch_env, fetch_out, gemini_env, session, cache_vars, launcher>>

\* The account the username names: absent, without repositories, with one.
InitScript ==
    /\ token_input = NoValue
    /\ secret_token = NoValue
    /\ env_token = NoValue
    /\ user_exists \in BOOLEAN
    /\ listing \in {<<>>} \cup (IF user_exists THEN {<<Repo(1, OrdinaryRepo)>>} ELSE {})
    /\ FetchIdle
    /\ ParseIdle
    /\ AppIdle

(***************************************************************************)
(* SpecUpload: the uploader over the runs of the script                    *)
(***************************************************************************)
FileNames == {"resume.txt", "cv.txt", "notes.txt"}
FileBytes == {"bytes()", "bytes(resume 1)", "bytes(resume 2)", Undecodable}
UploadedFiles == {NoFile} \cup {File(n, b) : n \in FileNames, b \in FileBytes}

NextUpload ==
    \/ RunSidebar("", "", "", FALSE)
    \/ \E file \in UploadedFiles : RunUpload(file)
    \/ RunForm("none", FormInput("", "", "", ""), Responds(<<>>))
    \/ EndRerun

SpecUpload == InitScript /\ [][NextUpload]_vars

(***************************************************************************)
(* SpecSubmit: the submit flows over the runs of the script                *)
(***************************************************************************)
FormInputs == {FormInput(q, r, c, d) : q \in {"", "question"}, r \in {"", "role"}, c \in {"", "company"}, d \in {"", "description"}}
SubmitFiles == {NoFile, File("resume.txt", "bytes(resume 1)"), File("cv.txt", "bytes()")}
SubmitServices ==
    {Responds(Numbered("Resume Objective") \o <<"\n", "a">>),
     Raises("generate_content", <<"quota">>)}

NextSubmit ==
    \/ \E key \in {"", "key"}, user \in {"", "alice"}, show \in BOOLEAN :
          RunSidebar(key, "", user, show)
    \/ \E file \in SubmitFiles : RunUpload(file)
    \/ \E btn \in {"ask", "submit"}, inp \in FormInputs, svc \in SubmitServices :
          RunForm(btn, inp, svc)
    \/ EndRerun

SpecSubmit == InitScript /\ [][NextSubmit]_vars

(***************************************************************************)
(* SpecCache: the cached fetch over time                                   *)
(***************************************************************************)
\* The clock advances between two runs of the script, by TickLen seconds, up
\* to MaxClock.
TickLen == 250
MaxClock == 1000

Tick ==
    /\ run_pc = "sidebar"
    /\ now + TickLen <= MaxClock
    /\ now' = now + TickLen
    /\ UNCHANGED <<fetch_env, fetch_out, parse_vars, gemini_env, gemini_out, session,
                   fetch_cache, run_vars, launcher>>

NextCache ==
    \/ \E pat \in {"", "token-input"}, show \in BOOLEAN : RunSidebar("key", pat, "alice", show)
    \/ RunUpload(File("resume.txt", "bytes(resume 1)"))
    \/ \E btn \in {"none", "ask", "submit"} :
          RunForm(btn, FormInput("question", "role", "company", "description"),
                  Responds(<<"a">>))
    \/ EndRerun
    \/ Tick

SpecCache == InitScript /\ [][NextCache]_vars

(***************************************************************************)
(* Claims about the upload of the resume                                   *)
(***************************************************************************)
BothOrNeither ==
    (uploaded_resume_content = NoValue) <=> (uploaded_resume_filename = NoValue)

\* One step of the upload handling, uploaded_file' being what the uploader held.
UploadStep ==
    (run_pc = "upload" /\ run_pc' = "form") =>
        \* the uploader was cleared
        /\ uploaded_file' = NoFile =>
              uploaded_resume_content' = NoValue /\ uploaded_resume_filename' = NoValue
        \* a file under another name that cannot be decoded
        /\ (/\ uploaded_file' # NoFile
            /\ uploaded_file'.name # uploaded_resume_filename
            /\ uploaded_file'.bytes = Undecodable) =>
              uploaded_resume_content' = NoValue /\ uploaded_resume_filename' = NoValue
        \* a file under the stored name
        /\ (uploaded_file' # NoFile /\ uploaded_file'.name = uploaded_resume_filename) =>
              /\ uploaded_resume_content' = uploaded_resume_content
              /\ uploaded_resume_filename' = uploaded_resume_filename
              /\ ~file_read'

\* C19: over any sequence of runs of the script (upload, upload of another
\* file, failed decode, cleared uploader) the stored content and the stored
\* file name are both None or both set; a run with no file, and a run whose
\* file fails to decode, leave both None; a run whose file has the stored
\* name leaves both as they were, without reading the file.
C19_UploadSessionState == []BothOrNeither /\ [][UploadStep]_vars

\* The uploader holds a file with the stored name and with other bytes than
\* those the stored content was decoded from; it was not read.
C19_Witness ==
    /\ run_pc = "form"
    /\ uploaded_file # NoFile
    /\ uploaded_file.name = uploaded_resume_filename
    /\ uploaded_file.bytes # Undecodable
    /\ Decode(uploaded_file.bytes) # uploaded_resume_content
    /\ ~file_read

(***************************************************************************)
(* Claims about the submit flows                                           *)
(***************************************************************************)
FlowSites == {"ask", "submit"}
FlowDone == run_pc = "done" /\ button \in FlowSites
\* The calls of fetch_github_repos that the flow of this run made.
FlowCalls == SelectSeq(api_calls, LAMBDA c : c.site \in FlowSites)
Empty(v) == v \in {NoValue, ""}

\* The five required inputs as the flow finds them, each with its message.
RequiredInputs ==
    { <<gemini_api_key, "error: enter your Gemini API key">>,
      <<uploaded_resume_content, "error: no resume found">>,
      <<session_form.job_role, "error: enter the job position">>,
      <<session_form.company_name, "error: enter the company name">>,
      <<session_form.job_description, "error: enter a job description">> }

\* C13: in both flows, a repository fetch or a generative call is made only
\* when the API key, the resume, the job role, the company and the job
\* description are all non-empty; each of the five that is missing shows its
\* own message, and only then; a run with the five present (and, in the
\* question flow, a question) proceeds to the generative call whether or not
\* the session holds a GitHub username; without one the flow shows a warning,
\* makes no fetch and hands the empty repository list to the generative call.
C13_RequiredInputsGateTheFlow ==
    FlowDone =>
        /\ (FlowCalls # <<>> \/ requests_sent # <<>> \/ client_configured) =>
              \A r \in RequiredInputs : ~Empty(r[1])
        /\ \A r \in RequiredInputs : Empty(r[1]) <=> r[2] \in page_msgs
        /\ (/\ \A r \in RequiredInputs : ~Empty(r[1])
            /\ button = "ask" => ~Empty(session_form.question)) =>
              valid_inputs /\ gemini_pc = "returned"
        /\ Empty(github_username) =>
              /\ "warning: GitHub username is not entered" \in page_msgs
              /\ FlowCalls = <<>>
              /\ github_data_main = <<>>
              /\ \A i \in 1..Len(requests_sent) : requests_sent[i].github_data = <<>>

\* The analysis flow has run with the five inputs and without a username: the
\* request went out with the empty repository list.
C13_Witness ==
    /\ FlowDone
    /\ button = "submit"
    /\ Empty(github_username)
    /\ valid_inputs
    /\ Len(requests_sent) = 1
    /\ requests_sent[1].github_data = <<>>
    /\ FlowCalls = <<>>

\* C14: within one submission no failed operation is invoked again: no call
\* of fetch_github_repos follows a failed call of the same flow, and at most
\* one request is sent to the generative service.
C14_NoAutomaticRetry ==
    /\ \A i, j \in 1..Len(FlowCalls) : (i < j /\ FlowCalls[i].status # "ok") => FALSE
    /\ Len(requests_sent) <= 1

(***************************************************************************)
(* Claims about the cached fetch                                           *)
(***************************************************************************)
\* A step of a run that asks for the repositories: the preview, or a flow.
PreviewRequest ==
    /\ run_pc = "sidebar" /\ run_pc' = "upload"
    /\ show_github_sidebar' /\ ~Empty(github_username')
FlowRequest ==
    /\ run_pc = "form" /\ run_pc' = "done"
    /\ button' \in FlowSites /\ valid_inputs' /\ ~Empty(github_username')
\* The result stored for the request's (username, token) before the step.
RequestedEntry == fetch_cache[<<github_username', github_pat'>>]

\* C15: a preview or a submission made less than 600 seconds after a fetch
\* was completed and stored for the same (username, token) calls
\* fetch_github_repos not at all, whatever the stored result is, the empty
\* list included; one made later, or with nothing stored, calls it.
C15_ReuseWithinTtl ==
    [][(PreviewRequest \/ FlowRequest) =>
          IF RequestedEntry.present /\ now - RequestedEntry.stored < ttl
          THEN Len(api_calls') = Len(api_calls)
          ELSE Len(api_calls') > Len(api_calls)]_vars

(***************************************************************************)
(* SpecLauncher: main.py, the desktop launcher                             *)
(***************************************************************************)
\* run_streamlit: None when the script is missing or Popen raises.
run_streamlit(script_exists, popen_ok) ==
    IF ~script_exists THEN NoValue
    ELSE IF ~popen_ok THEN NoValue
    ELSE "process"

timeout == 30
HalfSeconds(seconds) == seconds + seconds

\* One turn of the loop of wait_for_streamlit: the loop test, then the connect.
wait_for_streamlit(waited, reachable) ==
    IF ~(waited < HalfSeconds(timeout)) THEN "timeout"
    ELSE IF reachable THEN "ready"
    ELSE "sleep"

\* main after wait_for_streamlit returned: `if not wait_for_streamlit(port)`.
AfterWait_Ignored(ready) == "window"
AfterWait(ready) == IF ~ready THEN "timeout" ELSE "window"

\* cleanup(streamlit_process): nothing for None; terminate and wait, kill when
\* that raises.
cleanup_NoTerminate(process, log, how) == log
cleanup(process, log, how) ==
    IF process = NoValue THEN log
    ELSE IF how = "raises" THEN log \o <<"terminate", "kill">>
    ELSE log \o <<"terminate">>
CleanupOutcomes == {"exits", "raises"}

\* The server process once cleanup has run.
AfterCleanup(srv, log) == IF log # <<>> THEN "terminated" ELSE srv

\* main returns through its finally clause.
Return(how_ended, log) ==
    /\ main_pc' = "returned"
    /\ ending' = how_ended
    /\ cleanup_log' = log
    /\ server' = AfterCleanup(server, log)

StartServer ==
    /\ main_pc = "start"
    /\ \E script_exists \in BOOLEAN, popen_ok \in BOOLEAN :
          /\ streamlit_process' = run_streamlit(script_exists, popen_ok)
          /\ IF run_streamlit(script_exists, popen_ok) = NoValue
             THEN /\ main_pc' = "returned"
                  /\ ending' = "failed to start"
                  /\ cleanup_log' = cleanup(NoValue, cleanup_log, "exits")
                  /\ server' = server
             ELSE /\ main_pc' = "wait"
                  /\ server' = "starting"
                  /\ UNCHANGED <<ending, cleanup_log>>
    /\ UNCHANGED <<fetch_env, fetch_out, parse_vars, gemini_env, gemini_out, session,
                   cache_vars, run_vars, elapsed, connected, window>>

\* The server starts to accept connections on the port.
ServerListens ==
    /\ server = "starting"
    /\ server' = "listening"
    /\ UNCHANGED <<fetch_env, fetch_out, parse_vars, gemini_env, gemini_out, session,
                   cache_vars, run_vars, main_pc, streamlit_process, elapsed, connected,
                   window, cleanup_log, ending>>

Sleep ==
    /\ main_pc = "wait"
    /\ wait_for_streamlit(elapsed, server = "listening") = "sleep"
    /\ elapsed' = elapsed + 1
    /\ UNCHANGED <<fetch_env, fetch_out, parse_vars, gemini_env, gemini_out, session,
                   cache_vars, run_vars, main_pc, streamlit_process, server, connected,
                   window, cleanup_log, ending>>

Ready ==
    /\ main_pc = "wait"
    /\ wait_for_streamlit(elapsed, server = "listening") = "ready"
    /\ connected' = TRUE
    /\ elapsed' = elapsed + HalfSeconds(2)
    /\ main_pc' = AfterWait(TRUE)
    /\ UNCHANGED <<fetch_env, fetch_out, parse_vars, gemini_env, gemini_out, session,
                   cache_vars, run_vars, streamlit_process, server, window, cleanup_log,
                   ending>>

TimedOut ==
    /\ main_pc = "wait"
    /\ wait_for_streamlit(elapsed, server = "listening") = "timeout"
    /\ main_pc' = AfterWait(FALSE)
    /\ UNCHANGED <<fetch_env, fetch_out, parse_vars, gemini_env, gemini_out, session,
                   cache_vars, run_vars, streamlit_process, server, elapsed, connected,
                   window, cleanup_log, ending>>

\* main's timeout branch: cleanup, return, and cleanup again in the finally.
TimeoutReturn ==
    /\ main_pc = "timeout"
    /\ \E first \in CleanupOutcomes, second \in CleanupOutcomes :
          Return("timeout",
                 cleanup(streamlit_process,
                         cleanup(streamlit_process, cleanup_log, first), second))
    /\ UNCHANGED <<fetch_env, fetch_out, parse_vars, gemini_env, gemini_out, session,
                   cache_vars, run_vars, streamlit_process, elapsed, connected, window>>

\* sys.exit(0) of the SIGINT handler while main waits: only the finally runs.
Interrupt ==
    /\ main_pc = "wait"
    /\ \E how \in CleanupOutcomes :
          Return("interrupt", cleanup(streamlit_process, cleanup_log, how))
    /\ UNCHANGED <<fetch_env, fetch_out, parse_vars, gemini_env, gemini_out, session,
                   cache_vars, run_vars, streamlit_process, elapsed, connected, window>>

CreateWindow ==
    /\ main_pc = "window"
    /\ \E raises \in BOOLEAN, how \in CleanupOutcomes :
          IF raises
          THEN /\ Return("exception", cleanup(streamlit_process, cleanup_log, how))
               /\ window' = window
          ELSE /\ window' = "created"
               /\ main_pc' = "gui"
               /\ UNCHANGED <<ending, cleanup_log, server>>
    /\ UNCHANGED <<fetch_env, fetch_out, parse_vars, gemini_env, gemini_out, session,
                   cache_vars, run_vars, streamlit_process, elapsed, connected>>

\* webview.start: returns when the window is closed, or raises.
StartGui ==
    /\ main_pc = "gui"
    /\ \E outcome \in {"closed", "exception", "interrupt"}, how \in CleanupOutcomes :
          /\ window' = IF outcome = "closed" THEN "closed" ELSE window
          /\ Return(outcome, cleanup(streamlit_process, cleanup_log, how))
    /\ UNCHANGED <<fetch_env, fetch_out, parse_vars, gemini_env, gemini_out, session,
                   cache_vars, run_vars, streamlit_process, elapsed, connected>>

\* The interpreter exits: the cleanup registered with atexit runs.
AtExit ==
    /\ main_pc = "returned"
    /\ main_pc' = "exited"
    /\ \E how \in CleanupOutcomes :
          /\ cleanup_log' = cleanup(streamlit_process, cleanup_log, how)
          /\ server' = AfterCleanup(server, cleanup(streamlit_process, cleanup_log, how))
    /\ UNCHANGED <<fetch_env, fetch_out, parse_vars, gemini_env, gemini_out, session,
                   cache_vars, run_vars, streamlit_process, elapsed, connected, window,
                   ending>>

InitLauncher ==
    /\ token_input = NoValue
    /\ secret_token = NoValue
    /\ env_token = NoValue
    /\ user_exists = FALSE
    /\ listing = <<>>
    /\ FetchIdle
    /\ ParseIdle
    /\ AppIdle

NextLauncher ==
    \/ StartServer
    \/ ServerListens
    \/ Sleep
    \/ Ready
    \/ TimedOut
    \/ TimeoutReturn
    \/ Interrupt
    \/ CreateWindow
    \/ StartGui
    \/ AtExit

SpecLauncher == InitLauncher /\ [][NextLauncher]_vars

(***************************************************************************)
(* Claims about the launcher                                               *)
(***************************************************************************)
Ended == main_pc \in {"returned", "exited"}

\* C16: a window exists only when the server process was started and a
\* connection to its port succeeded; when the process could not be started,
\* or the port was not reached before 30 seconds had passed, main has
\* returned and there is no window, and a timeout is declared only after 30
\* seconds without a successful connection.
C16_WindowOnlyWhenReachable ==
    /\ window # "none" => streamlit_process # NoValue /\ server # "none" /\ connected
    /\ ending \in {"failed to start", "timeout"} => Ended /\ window = "none"
    /\ ending = "failed to start" => server = "none"
    /\ ending = "timeout" => ~connected /\ ~(elapsed < HalfSeconds(timeout))
    /\ main_pc = "timeout" => window = "none"

C16_Witness == window = "created" /\ connected /\ elapsed > HalfSeconds(2)

\* C17: once main has ended and the server process had been started, cleanup
\* has asked the process to terminate, whichever way main ended: timeout,
\* window closed, exception or interrupt.
C17_TerminationRequested ==
    Ended /\ server # "none" =>
        /\ cleanup_log # <<>>
        /\ cleanup_log[1] = "terminate"
        /\ server = "terminated"
        /\ ending \in {"timeout", "closed", "exception", "interrupt"}

C17_Witness ==
    /\ main_pc = "returned"
    /\ ending = "exception"
    /\ window = "created"
    /\ server = "terminated"

====
